---- MODULE Spec2Model ----
(***************************************************************************)
(* A model of the sparse data logger's core:                               *)
(*   - PeriodicStream (periodic.py): the per-stream reducer that emits one *)
(*     record per period, as a latched state or as an accumulated sum;     *)
(*   - Collector and _BatchBuffer (collector.py): discovery, selection,    *)
(*     the _DONE wait, decoding into the batch buffer, flushing, cleanup.  *)
(*                                                                         *)
(* Epochs and the periodicity are floats in the source.  They are modelled *)
(* as integers on a common grid (one unit is a fraction of a period), so   *)
(* that k * periodicity and floor(epoch / periodicity) are exact.          *)
(***************************************************************************)
EXTENDS Integers, Sequences, FiniteSets, TLC

\* ------------------------------------------------------------------------
\* Bounds of the model
\* ------------------------------------------------------------------------

\* number of record / record_vector / close calls made on one stream
MaxCalls == 3
\* largest epoch passed to record or close
MaxEpoch == 3
\* largest periodicity a stream is constructed with
MaxPeriodicity == 2

Epochs == -1 .. MaxEpoch
Periodicities == 1 .. MaxPeriodicity
Kinds == {"state", "accumulator"}

\* ------------------------------------------------------------------------
\* Values
\* ------------------------------------------------------------------------

\* Optional values: None is Python's None, Some(x) a present value.
None == << >>
Some(x) == << x >>
Get(o) == o[1]

\* A sparse vector is a function from its stored indices to their values;
\* to_coo() returns the indices in ascending order with their values.
EmptyVec == [i \in {} |-> 0]
nvals(v) == Cardinality(DOMAIN v)

ValAt(v, i) == IF i \in DOMAIN v THEN v[i] ELSE 0

\* graphblas element-wise addition: union of the indices, sum where both hold
VecAdd(a, b) == [i \in (DOMAIN a) \cup (DOMAIN b) |-> ValAt(a, i) + ValAt(b, i)]

\* The vectors a caller holds and passes to record_vector.
VectorInputs == {EmptyVec, (0 :> 1), (0 :> 2) @@ (5 :> 4)}

\* The (indices, values) arrays a caller passes to record: empty, unsorted,
\* and of different lengths.
ArrayInputs ==
    { [indices |-> << >>, values |-> << >>],
      [indices |-> <<5, 0>>, values |-> <<4, 2>>],
      [indices |-> <<0>>, values |-> <<1, 2>>] }

CallerIds == {1}

VARIABLES
    kind,                 \* PeriodicStream._kind
    periodicity,          \* PeriodicStream._periodicity
    next_state_period,    \* PeriodicStream._next_state_period
    state_vector,         \* PeriodicStream._state_vector (None or a reference)
    next_acc_period,      \* PeriodicStream._next_acc_period
    acc_current_period,   \* PeriodicStream._acc_current_period (None or an int)
    accumulator_vector,   \* PeriodicStream._accumulator_vector (None or a reference)
    callerVec,            \* the contents of the Vector objects the caller owns
    emitted,              \* the calls made to the underlying logger, in order
    lastAt,               \* history: per epoch, the state vector recorded last at that epoch
    binSum,               \* history: per bin, the sum of the accumulator inputs of that bin
    shadow,               \* history: the retained vector as computed from the call-time values
    nCalls,               \* history: number of calls made on the stream
    nCloses,              \* history: number of close calls made on the stream
    closedAt,             \* history: the final epoch if the last call was close, else None
    recordedAt,           \* history: the epoch if the last call recorded a vector, else None
    lastPassed,           \* history: the caller's Vector passed by the last record_vector
    mutated               \* history: that Vector was overwritten after the call returned

periodicVars ==
    << kind, periodicity, next_state_period, state_vector, next_acc_period,
       acc_current_period, accumulator_vector, callerVec, emitted, lastAt,
       binSum, shadow, nCalls, nCloses, closedAt, recordedAt, lastPassed,
       mutated >>

VARIABLES
    done,                 \* per path: the _DONE marker exists
    streamsDir,           \* per path: None, or the descriptors under streams/ by stream id
    segs,                 \* per path: the *.seg.zst files by name, each with its measurements
    capacity,             \* _BatchBuffer.capacity (0 while there is no buffer)
    op,                   \* the operation running or run last: "none", "collect", "cleanup", "wait"
    pc,                   \* the position of the running operation; "idle" when none runs
    result,               \* how the last operation ended: "none", "true", "false", "raised"
    rule,                 \* collect: the rule argument
    cargs,                \* cleanup, or _wait_for_done called on its own: the arguments
    streams_by_path,      \* collect: the descriptors _load_streams returned, per path
    selected_by_path,     \* collect: the selected stream ids per path, in insertion order
    pending,              \* _wait_for_done: the paths still missing _DONE (kept after a collect)
    deadline,             \* _wait_for_done: None or the deadline, counted from the start of the wait
    sleep_s,              \* _wait_for_done: the sleep between polls
    elapsed,              \* time.monotonic() since the wait started
    dirIdx,               \* collect: the entry of selected_by_path being decoded
    records,              \* _decode_logger: the measurements still to come from the directory
    buffer,               \* the rows held by the _BatchBuffer
    written,              \* the batches passed to writer.write_batch, in order
    arrays,               \* the contents of the arrays a caller of _BatchBuffer.append owns
    appended,             \* history: the rows appended, as they were at the append
    rerunOf,              \* history: the result of the previous call when it was the same cleanup
    treeBefore            \* history: the segments and streams/ when the running cleanup began

collectorVars ==
    << done, streamsDir, segs, capacity, op, pc, result, rule, cargs,
       streams_by_path, selected_by_path, pending, deadline, sleep_s, elapsed,
       dirIdx, records, buffer, written, arrays, appended, rerunOf, treeBefore >>

vars == << periodicVars, collectorVars >>

\* ------------------------------------------------------------------------
\* References to Vector objects
\* ------------------------------------------------------------------------

\* A reference is either to an object the stream owns (its contents are
\* held in the reference) or to a Vector object of the caller.
Own(v) == [own |-> TRUE, id |-> 0, val |-> v]
Caller(c) == [own |-> FALSE, id |-> c, val |-> EmptyVec]

Deref(r) == IF r.own THEN r.val ELSE callerVec[r.id]

DupShared(r) == r

\* Vector.dup(): a new object with the same contents
Dup(r) == Own(Deref(r))

\* Vector.from_coo(indices, values): a new object built from the arrays
FromCoo(indices, values) ==
    Own([i \in {indices[j] : j \in DOMAIN indices} |->
            values[CHOOSE j \in DOMAIN indices : indices[j] = i]])

\* ------------------------------------------------------------------------
\* PeriodicStream: state helpers
\* ------------------------------------------------------------------------

BoundaryShifted(k) == (k + 1) * periodicity

\* the epoch of period index k
Boundary(k) == k * periodicity

PeriodIndexAbove(epoch) == epoch \div periodicity + 1

\* np.floor(epoch / periodicity)
PeriodIndex(epoch) == epoch \div periodicity

Emission(k, v, sh) == [k |-> k, epoch |-> Boundary(k), vec |-> v, expect |-> sh]

SetAt(f, k, v) == IF k \in DOMAIN f THEN [f EXCEPT ![k] = v] ELSE f @@ (k :> v)

StopsAfter(boundary, epoch, include_equal) == boundary > epoch

\* the break condition of the loop of _emit_state_up_to
StopsAt(boundary, epoch, include_equal) ==
    boundary > epoch \/ (~include_equal /\ boundary = epoch)

\* _emit_state_up_to: the emissions made and the period index reached
RECURSIVE emit_state_up_to(_, _, _, _, _, _)
emit_state_up_to(nsp, sv, epoch, include_equal, sh, out) ==
    IF sv = None
    THEN [next |-> nsp, out |-> out]
    ELSE IF StopsAt(Boundary(nsp), epoch, include_equal)
         THEN [next |-> nsp, out |-> out]
         ELSE emit_state_up_to(nsp + 1, sv, epoch, include_equal, sh,
                               Append(out, Emission(nsp, Deref(Get(sv)), sh)))

\* _record_state
record_state(epoch, vector) ==
    LET r == emit_state_up_to(next_state_period, state_vector, epoch, FALSE,
                              IF shadow = None THEN EmptyVec ELSE Get(shadow), << >>)
    IN  /\ next_state_period' = r.next
        /\ emitted' = emitted \o r.out
        /\ state_vector' = Some(Dup(vector))
        /\ shadow' = Some(Deref(vector))
        /\ lastAt' = SetAt(lastAt, epoch, Deref(vector))
        /\ UNCHANGED << next_acc_period, acc_current_period, accumulator_vector,
                        callerVec, binSum >>

\* ------------------------------------------------------------------------
\* PeriodicStream: accumulator helpers
\* ------------------------------------------------------------------------

\* _materialize_accumulator
materialize_accumulator(acc) == IF acc = None THEN EmptyVec ELSE Deref(Get(acc))

EmitOnceMore(nap, period_index) == nap < period_index \/ nap = next_acc_period

\* while self._next_acc_period < period_index
MoreToEmit(nap, period_index) == nap < period_index

SkipPeriod(k) == k + 2

\* self._next_acc_period += 1
NextPeriod(k) == k + 1

\* _emit_acc_periods_before: the emissions made and the state reached
RECURSIVE emit_acc_periods_before(_, _, _, _, _, _)
emit_acc_periods_before(nap, cur, acc, period_index, sh, out) ==
    IF ~MoreToEmit(nap, period_index)
    THEN [next |-> nap, cur |-> cur, acc |-> acc, sh |-> sh, out |-> out]
    ELSE IF cur = Some(nap)
         THEN emit_acc_periods_before(NextPeriod(nap), None, None, period_index, None,
                  Append(out, Emission(nap, materialize_accumulator(acc),
                                       IF sh = None THEN EmptyVec ELSE Get(sh))))
         ELSE emit_acc_periods_before(NextPeriod(nap), cur, acc, period_index, sh,
                  Append(out, Emission(nap, EmptyVec, EmptyVec)))

BinAdd(sums, k, v) ==
    IF k \in DOMAIN sums
    THEN [sums EXCEPT ![k] = VecAdd(sums[k], v)]
    ELSE sums @@ (k :> v)

\* _record_accumulator
record_accumulator(epoch, vector) ==
    LET period_index == PeriodIndex(epoch)
        r == emit_acc_periods_before(next_acc_period, acc_current_period,
                                     accumulator_vector, period_index, shadow, << >>)
        v == Deref(vector)
    IN  /\ next_acc_period' = r.next
        /\ emitted' = emitted \o r.out
        /\ binSum' = BinAdd(binSum, period_index, v)
        /\ IF r.cur # Some(period_index)
           THEN /\ acc_current_period' = Some(period_index)
                /\ accumulator_vector' = IF nvals(v) # 0 THEN Some(Dup(vector)) ELSE None
                /\ shadow' = IF nvals(v) # 0 THEN Some(v) ELSE None
                /\ UNCHANGED callerVec
           ELSE IF nvals(v) = 0
           THEN /\ acc_current_period' = r.cur
                /\ accumulator_vector' = r.acc
                /\ shadow' = r.sh
                /\ UNCHANGED callerVec
           ELSE IF r.acc = None
           THEN /\ acc_current_period' = r.cur
                /\ accumulator_vector' = Some(Dup(vector))
                /\ shadow' = Some(v)
                /\ UNCHANGED callerVec
           ELSE \* self._accumulator_vector += vector, in place
                /\ acc_current_period' = r.cur
                /\ shadow' = Some(VecAdd(Get(r.sh), v))
                /\ IF Get(r.acc).own
                   THEN /\ accumulator_vector' =
                               Some(Own(VecAdd(Deref(Get(r.acc)), v)))
                        /\ UNCHANGED callerVec
                   ELSE /\ accumulator_vector' = r.acc
                        /\ callerVec' = [callerVec EXCEPT ![Get(r.acc).id] =
                                             VecAdd(Deref(Get(r.acc)), v)]
        /\ UNCHANGED << next_state_period, state_vector, lastAt >>

\* ------------------------------------------------------------------------
\* PeriodicStream: the operations
\* ------------------------------------------------------------------------

\* record_vector, on a reference to the vector
record_vector(epoch, vector) ==
    IF kind = "state"
    THEN record_state(epoch, vector)
    ELSE record_accumulator(epoch, vector)

\* stream.record_vector(epoch, v) on a Vector object of the caller
RecordVector ==
    /\ nCalls < MaxCalls
    /\ \E epoch \in Epochs, c \in CallerIds :
          /\ record_vector(epoch, Caller(c))
          /\ lastPassed' = Some(c)
          /\ recordedAt' = Some(epoch)
    /\ nCalls' = nCalls + 1
    /\ closedAt' = None
    /\ mutated' = FALSE
    /\ UNCHANGED << kind, periodicity, nCloses, collectorVars >>

\* stream.record(epoch, indices, values) on arrays of the caller
Record ==
    /\ nCalls < MaxCalls
    /\ \E epoch \in Epochs, a \in ArrayInputs :
          IF Len(a.indices) # Len(a.values)
          THEN \* ValueError: nothing is recorded
               /\ recordedAt' = None
               /\ UNCHANGED << next_state_period, state_vector, next_acc_period,
                               acc_current_period, accumulator_vector, callerVec,
                               emitted, lastAt, binSum, shadow >>
          ELSE /\ record_vector(epoch, FromCoo(a.indices, a.values))
               /\ recordedAt' = Some(epoch)
    /\ nCalls' = nCalls + 1
    /\ closedAt' = None
    /\ lastPassed' = None
    /\ mutated' = FALSE
    /\ UNCHANGED << kind, periodicity, nCloses, collectorVars >>

\* stream.close(final_epoch)
Close ==
    /\ nCalls < MaxCalls
    /\ \E final_epoch \in Epochs :
          /\ IF kind = "state"
             THEN LET r == emit_state_up_to(next_state_period, state_vector,
                               final_epoch, TRUE,
                               IF shadow = None THEN EmptyVec ELSE Get(shadow), << >>)
                  IN  /\ next_state_period' = r.next
                      /\ emitted' = emitted \o r.out
                      /\ UNCHANGED << next_acc_period, acc_current_period,
                                      accumulator_vector, shadow >>
             ELSE LET last_period_index == PeriodIndex(final_epoch)
                      r == emit_acc_periods_before(next_acc_period,
                               acc_current_period, accumulator_vector,
                               last_period_index, shadow, << >>)
                  IN  /\ next_acc_period' = r.next
                      /\ acc_current_period' = r.cur
                      /\ accumulator_vector' = r.acc
                      /\ shadow' = r.sh
                      /\ emitted' = emitted \o r.out
                      /\ UNCHANGED << next_state_period >>
          /\ closedAt' = Some(final_epoch)
          /\ recordedAt' = None
    /\ nCalls' = nCalls + 1
    /\ nCloses' = nCloses + 1
    /\ UNCHANGED << kind, periodicity, state_vector, callerVec, lastAt, binSum,
                    lastPassed, mutated, collectorVars >>

\* The caller overwrites the values of one of its Vector objects in place.
MutateCaller ==
    /\ \E c \in CallerIds, v \in VectorInputs :
          /\ v # callerVec[c]
          /\ callerVec' = [callerVec EXCEPT ![c] = v]
          /\ mutated' = (mutated \/ lastPassed = Some(c))
    /\ UNCHANGED << kind, periodicity, next_state_period, state_vector,
                    next_acc_period, acc_current_period, accumulator_vector,
                    emitted, lastAt, binSum, shadow, nCalls, nCloses, closedAt,
                    recordedAt, lastPassed, collectorVars >>

\* no Collector is in use
CollectorUnused ==
    /\ done = << >> /\ streamsDir = << >> /\ segs = << >>
    /\ capacity = 0 /\ op = "none" /\ pc = "idle" /\ result = "none"
    /\ rule = None /\ cargs = None
    /\ streams_by_path = << >> /\ selected_by_path = << >>
    /\ pending = {} /\ deadline = None /\ sleep_s = 0 /\ elapsed = 0
    /\ dirIdx = 0 /\ records = << >> /\ buffer = << >> /\ written = << >>
    /\ arrays = << >> /\ appended = << >> /\ rerunOf = "none" /\ treeBefore = None

\* PeriodicStream.__init__
Init ==
    /\ kind \in Kinds
    /\ periodicity \in Periodicities
    /\ next_state_period = 0
    /\ state_vector = None
    /\ next_acc_period = 0
    /\ acc_current_period = None
    /\ accumulator_vector = None
    /\ callerVec \in [CallerIds -> VectorInputs]
    /\ emitted = << >>
    /\ lastAt = << >>
    /\ binSum = << >>
    /\ shadow = None
    /\ nCalls = 0
    /\ nCloses = 0
    /\ closedAt = None
    /\ recordedAt = None
    /\ lastPassed = None
    /\ mutated = FALSE
    /\ CollectorUnused

Next ==
    \/ RecordVector
    \/ Record
    \/ Close
    \/ MutateCaller

Spec == Init /\ [][Next]_vars

\* ------------------------------------------------------------------------
\* Properties of PeriodicStream
\* ------------------------------------------------------------------------

\* the calls so far are record calls followed by one close
RecordsThenClose == nCloses = 1 /\ closedAt # None

EmittedPeriods == {emitted[i].k : i \in DOMAIN emitted}

\* the latest measurement among those recorded with an epoch of at most b
LatestUpTo(b) ==
    LET S == {e \in DOMAIN lastAt : e <= b}
    IN  lastAt[CHOOSE e \in S : \A l \in S : l <= e]

\* C1: for a state-kind stream, after record calls followed by close(E), a
\* boundary k*P <= E is emitted if a measurement was recorded with an epoch
\* below k*P, every emitted boundary is at most E and has a measurement
\* recorded at or before it, and it carries the latest such measurement (so
\* nothing is emitted at 0 for a first measurement recorded after 0).
C1_StateEmissionsDetermined ==
    (kind = "state" /\ RecordsThenClose) =>
        /\ \A k \in 0 .. MaxEpoch :
              ( /\ k * periodicity <= Get(closedAt)
                /\ \E e \in DOMAIN lastAt : e < k * periodicity )
              => k \in EmittedPeriods
        /\ \A i \in DOMAIN emitted :
              /\ emitted[i].epoch <= Get(closedAt)
              /\ \E e \in DOMAIN lastAt : e <= emitted[i].epoch
              /\ emitted[i].vec = LatestUpTo(emitted[i].epoch)

\* C2: for an accumulator-kind stream, after record calls (any epochs, in
\* any order) followed by close(E), every emitted bin k carries the sum of
\* all the inputs whose floor(epoch / P) is k.
C2_AccumulatorPartition ==
    (kind = "accumulator" /\ RecordsThenClose) =>
        \A i \in DOMAIN emitted :
            emitted[i].vec = (IF emitted[i].k \in DOMAIN binSum
                              THEN binSum[emitted[i].k] ELSE EmptyVec)

\* C3: for either kind and any calls, the emitted period indices start at 0
\* and increase strictly (so none is emitted twice), and every emission's
\* epoch is k * P for its period index k.
C3_MonotoneEmissions ==
    \A i \in DOMAIN emitted :
        /\ emitted[i].epoch = emitted[i].k * periodicity
        /\ (i = 1 => emitted[i].k = 0)
        /\ (i > 1 => emitted[i].k > emitted[i - 1].k)

\* emissions of both kinds after out-of-order and negative epochs and a
\* repeated close
C3_Witness ==
    /\ Len(emitted) >= 2
    /\ nCloses >= 2
    /\ \/ \E e \in DOMAIN lastAt : e < 0
       \/ \E k \in DOMAIN binSum : k < 0

\* C4: the payload of every emission is what the recorded vectors held when
\* record / record_vector was called, whatever the caller did to its own
\* vectors afterwards.
C4_PrivateCopies ==
    \A i \in DOMAIN emitted : emitted[i].vec = emitted[i].expect

\* record_vector(v), then v overwritten in place, then a close that emits
\* the latched vector, which differs from what v holds now
C4_Witness ==
    /\ mutated
    /\ closedAt # None
    /\ nCalls = 2
    /\ emitted # << >>
    /\ \A c \in CallerIds : emitted[Len(emitted)].vec # callerVec[c]

\* the emissions made by the step
NewEmissions == {i \in DOMAIN emitted' : i > Len(emitted)}

\* C13: a close(final_epoch) of an accumulator stream emits only bins with a
\* period index strictly below floor(final_epoch / P), and an open bin at or
\* after that index stays pending with its accumulated vector.
C13_CloseKeepsOpenBin ==
    [][ (kind = "accumulator" /\ nCloses' = nCloses + 1) =>
            LET last == Get(closedAt') \div periodicity
            IN  /\ \A i \in NewEmissions : emitted'[i].k < last
                /\ (acc_current_period # None /\ Get(acc_current_period) >= last) =>
                       /\ acc_current_period' = acc_current_period
                       /\ accumulator_vector' = accumulator_vector ]_vars

\* a close inside the open bin: the bins before it were emitted, and the
\* non-empty accumulated vector of the open bin is still pending
C13_Witness ==
    /\ kind = "accumulator" /\ closedAt # None
    /\ acc_current_period = Some(Get(closedAt) \div periodicity)
    /\ accumulator_vector # None
    /\ emitted # << >>

\* the example of C13 on the grid of the model (P = 2): records in bin 0 at
\* epochs 0 and 1, then close(2), emit exactly one record, at 0 with the sum
C13_ExampleReached ==
    /\ kind = "accumulator" /\ periodicity = 2 /\ nCalls = 3 /\ closedAt = Some(2)
    /\ DOMAIN binSum = {0} /\ binSum[0] = (0 :> 2)
    /\ Len(emitted) = 1 /\ emitted[1].epoch = 0 /\ emitted[1].vec = (0 :> 2)

\* C14: after close(E) of an accumulator stream every period index k with
\* 0 <= k < floor(E / P) has been emitted exactly once, at k * P, and a bin
\* that received no input or only empty inputs was emitted as an empty record.
C14_EveryBinEmittedOnce ==
    (kind = "accumulator" /\ closedAt # None) =>
        \A k \in 0 .. (Get(closedAt) \div periodicity) - 1 :
            /\ Cardinality({i \in DOMAIN emitted : emitted[i].k = k}) = 1
            /\ \A i \in DOMAIN emitted :
                  emitted[i].k = k =>
                      /\ emitted[i].epoch = k * periodicity
                      /\ (k \notin DOMAIN binSum \/ binSum[k] = EmptyVec) =>
                             emitted[i].vec = EmptyVec

\* records in bins 0 and 2, then close at the end of bin 2: bin 1 is emitted
\* empty between two non-empty bins
C14_Witness ==
    /\ kind = "accumulator" /\ periodicity = 1 /\ closedAt = Some(3)
    /\ DOMAIN binSum = {0, 2}
    /\ Len(emitted) = 3
    /\ emitted[1].vec # EmptyVec /\ emitted[2].vec = EmptyVec
    /\ emitted[3].vec # EmptyVec /\ emitted[2].epoch = 1

\* C17: for a state stream, a record at epoch e emits only boundaries
\* strictly below e (none at e itself, also when e is a boundary), whereas
\* close(E) on a latched stream also emits the boundary equal to E when that
\* boundary has not been emitted yet.
C17_BoundaryStrictness ==
    [][ kind = "state" =>
            /\ (nCalls' = nCalls + 1 /\ recordedAt' # None) =>
                   \A i \in NewEmissions : emitted'[i].epoch < Get(recordedAt')
            /\ (nCloses' = nCloses + 1 /\ state_vector # None
                  /\ Get(closedAt') % periodicity = 0
                  /\ Get(closedAt') \div periodicity >= next_state_period) =>
                   \E i \in NewEmissions : emitted'[i].epoch = Get(closedAt') ]_vars

\* a vector was recorded exactly at a boundary after an earlier one, and the
\* close at that boundary emitted it last
C17_Witness ==
    /\ kind = "state" /\ closedAt # None
    /\ Get(closedAt) \in DOMAIN lastAt
    /\ \E e \in DOMAIN lastAt : e < Get(closedAt)
    /\ Len(emitted) >= 2
    /\ emitted[Len(emitted)].epoch = Get(closedAt)
    /\ emitted[Len(emitted)].vec = lastAt[Get(closedAt)]
    /\ emitted[Len(emitted) - 1].vec # lastAt[Get(closedAt)]

\* C22: a close(E') that follows a close(E) with E' <= E and no record in
\* between emits nothing and leaves the next period indices, the latched
\* vector, the current bin and the accumulator unchanged, for both kinds.
C22_CloseIdempotent ==
    [][ (closedAt # None /\ nCloses' = nCloses + 1
           /\ Get(closedAt') <= Get(closedAt)) =>
            /\ emitted' = emitted
            /\ next_state_period' = next_state_period
            /\ state_vector' = state_vector
            /\ next_acc_period' = next_acc_period
            /\ acc_current_period' = acc_current_period
            /\ accumulator_vector' = accumulator_vector ]_vars

\* a state stream after one record and two closes, the second at an epoch
\* below a boundary that the first one emitted
C22_Witness ==
    /\ kind = "state" /\ nCalls = 3 /\ nCloses = 2 /\ closedAt # None
    /\ lastAt # << >>
    /\ \E i \in DOMAIN emitted : emitted[i].epoch > Get(closedAt)

\* ========================================================================
\* Collector and _BatchBuffer
\* ========================================================================

\* largest capacity of the batch buffer (the source uses DEFAULT_BATCH_SIZE)
MaxBatchSize == 2
\* largest timeout and backoff passed to collect and cleanup
MaxTimeout == 1
MaxBackoff == 1

\* the paths given to Collector(paths), in the order given
PathSeq == <<1, 2>>
PathSet == {PathSeq[i] : i \in DOMAIN PathSeq}

Timeouts == {None} \cup {Some(t) : t \in -1 .. MaxTimeout}
Backoffs == 0 .. MaxBackoff

\* a rule is None or "label entity equals the value"
Rules == {None, Some("A"), Some("B")}

\* stream descriptors (streams/<stream_id>.json): a label, and whether the
\* scales are present
dA == [entity |-> "A", scales |-> TRUE]
dB == [entity |-> "B", scales |-> TRUE]
dNoScales == [entity |-> "A", scales |-> FALSE]

\* the streams/ directory of a path: absent, or descriptors by stream id
\* (a stream id may carry different labels in different directories, and a
\* directory may hold no stream that a rule selects)
StreamsDirs ==
    { None,
      Some((1 :> dA) @@ (2 :> dB)),
      Some((1 :> dB)),
      Some((1 :> dB) @@ (2 :> dNoScales)) }

\* a decoded measurement (stream_id, epoch, indices, values)
M(s, t) == [sid |-> s, epoch |-> t, idx |-> <<0>>, vals |-> <<t>>]

\* the segment files of a path: by file name, the measurements in file order
SegmentLayouts ==
    { << >>,
      (1 :> << M(2, 1) >>) @@ (2 :> << M(1, 2), M(1, 3) >>) }

RECURSIVE SortedSeq(_)
\* sorted(...): the elements of a set in ascending order
SortedSeq(S) ==
    IF S = {} THEN << >>
    ELSE LET m == CHOOSE x \in S : \A y \in S : x <= y
         IN  << m >> \o SortedSeq(S \ {m})

\* ------------------------------------------------------------------------
\* _BatchBuffer
\* ------------------------------------------------------------------------

\* a reference to an array: one nobody else holds, or an array of the caller
OwnArr(a) == [own |-> TRUE, id |-> 0, val |-> a]
CallerArr(c) == [own |-> FALSE, id |-> c, val |-> << >>]
DerefArr(r) == IF r.own THEN r.val ELSE arrays[r.id]

\* np.asarray(x, dtype): the same array object when x is an array of the dtype
AsArray(r) == r

\* the row as the lists of the buffer hold it
RowAt(r) ==
    [stream_id |-> r.stream_id, epoch |-> r.epoch, indices |-> DerefArr(r.indices),
     values |-> DerefArr(r.values), entity |-> r.entity, dir |-> r.dir]

\* _BatchBuffer.append: every list gets one more element
buffer_append(buf, stream_id, epoch, indices, values, meta, dir) ==
    Append(buf, [stream_id |-> stream_id, epoch |-> epoch, indices |-> indices,
                 values |-> values, entity |-> meta.entity, dir |-> dir])

\* _BatchBuffer.size
size(buf) == Len(buf)

IsOverfull(buf, cap) == size(buf) > cap /\ cap > 0

\* _BatchBuffer.is_full
is_full(buf, cap) == size(buf) >= cap /\ cap > 0

\* _BatchBuffer.to_arrow_arrays: the arrow arrays are built from the lists
to_arrow_arrays(buf) == [i \in DOMAIN buf |-> RowAt(buf[i])]

ClearNothing(buf) == buf

\* _BatchBuffer.clear
clear(buf) == << >>

\* Collector._flush_buffer
flush_buffer(out, buf) ==
    IF size(buf) = 0
    THEN [written |-> out, buffer |-> buf]
    ELSE [written |-> Append(out, to_arrow_arrays(buf)), buffer |-> clear(buf)]

\* ------------------------------------------------------------------------
\* Collector helpers
\* ------------------------------------------------------------------------

RECURSIVE load_streams(_, _)
\* _load_streams: the descriptors of every path, in path order and in the
\* order of the sorted file names, with the owning path attached
load_streams(i, acc) ==
    IF i > Len(PathSeq) THEN acc
    ELSE LET base == PathSeq[i]
         IN  IF streamsDir[base] = None
             THEN load_streams(i + 1, acc)
             ELSE LET base_map == Get(streamsDir[base])
                      sids == SortedSeq(DOMAIN base_map)
                  IN  load_streams(i + 1,
                        [all |-> acc.all \o
                                 [j \in DOMAIN sids |->
                                    [logger_path |-> base, stream_id |-> sids[j],
                                     meta |-> base_map[sids[j]]]],
                         per_path |-> acc.per_path @@ (base :> base_map)])

MatchesAny(r, meta) == TRUE

\* rule.matches(labels); no rule selects every stream
Matches(r, meta) == r = None \/ meta.entity = Get(r)

\* label_selector.select(all_streams, rule)
Select(streams, r) == SelectSeq(streams, LAMBDA st : Matches(r, st.meta))

RECURSIVE group_streams_by_path(_, _)
\* _group_streams_by_path: a dict from path to the set of stream ids
group_streams_by_path(streams, grouped) ==
    IF streams = << >> THEN grouped
    ELSE LET st == Head(streams)
             at == {i \in DOMAIN grouped : grouped[i].path = st.logger_path}
         IN  group_streams_by_path(Tail(streams),
                IF at = {}
                THEN Append(grouped, [path |-> st.logger_path, ids |-> {st.stream_id}])
                ELSE [i \in DOMAIN grouped |->
                        IF i \in at
                        THEN [grouped[i] EXCEPT !.ids = @ \cup {st.stream_id}]
                        ELSE grouped[i]])

AllPaths(grouped) == PathSet

\* selected_by_path.keys()
Keys(grouped) == {grouped[i].path : i \in DOMAIN grouped}

\* streams_by_path.get(path, {})
MetaMap(per_path, path) == IF path \in DOMAIN per_path THEN per_path[path] ELSE << >>

SelectedAnywhere(grouped, i) == UNION {grouped[j].ids : j \in DOMAIN grouped}

\* the selected_ids passed to _decode_logger for entry i
SelectedIds(grouped, i) == grouped[i].ids

ScalesNeverMissing(meta_map) == FALSE

\* _scale_pairs raises when a descriptor of the directory lacks a scale
ScalesMissing(meta_map) == \E sid \in DOMAIN meta_map : ~meta_map[sid].scales

ReverseSegmentFiles(files) ==
    LET names == SortedSeq(DOMAIN files)
    IN  [i \in DOMAIN names |-> names[Len(names) + 1 - i]]

\* sorted(base.glob("*.seg.zst"))
SegmentFiles(files) == SortedSeq(DOMAIN files)

RECURSIVE DecodeAll(_, _)
\* the measurements of the segment files of a path, file after file in the
\* order of the sorted file names
DecodeAll(files, names) ==
    IF names = << >> THEN << >>
    ELSE files[Head(names)] \o DecodeAll(files, Tail(names))

\* max(x, 0)
Max0(x) == IF x > 0 THEN x ELSE 0

ProceedAnyway(ok) == FALSE

\* collect and cleanup: "if not self._wait_for_done(...): return False"
AbortOnTimeout(ok) == ~ok

RemoveFirstSegment(files) ==
    IF DOMAIN files = {} THEN files
    ELSE LET first == CHOOSE n \in DOMAIN files : \A o \in DOMAIN files : n <= o
         IN  [n \in DOMAIN files \ {first} |-> files[n]]

\* _remove_segments: every *.seg.zst of the path is unlinked
remove_segments(files) == << >>

KeepMetadata(sd) == sd

\* _remove_metadata: streams/ is removed when it is a directory
remove_metadata(sd) == None

\* ------------------------------------------------------------------------
\* Collector: the operations, step by step
\* ------------------------------------------------------------------------

fsVars == << done, streamsDir, segs >>
waitVars == << pending, deadline, sleep_s, elapsed >>
decodeVars == << dirIdx, records, buffer, written, appended >>

\* _wait_for_done up to its loop: pending, sleep_s and the deadline
WaitBegin(paths, backoff, timeout) ==
    /\ pending' = paths
    /\ sleep_s' = Max0(backoff)
    /\ deadline' = IF timeout = None THEN None ELSE Some(Max0(Get(timeout)))
    /\ elapsed' = 0

\* collect, up to the wait: discovery, selection, grouping
CollectBegin ==
    /\ pc = "idle"
    /\ \E r \in Rules, backoff \in Backoffs, timeout \in Timeouts :
          LET loaded == load_streams(1, [all |-> << >>, per_path |-> << >>])
              selected_streams == Select(loaded.all, r)
              grouped == group_streams_by_path(selected_streams, << >>)
          IN  /\ rule' = r
              /\ streams_by_path' = loaded.per_path
              /\ IF selected_streams = << >>
                 THEN /\ selected_by_path' = << >>
                      /\ result' = "true"
                      /\ pc' = "idle"
                      /\ pending' = {}
                      /\ UNCHANGED << deadline, sleep_s, elapsed >>
                 ELSE /\ selected_by_path' = grouped
                      /\ result' = "none"
                      /\ pc' = "poll"
                      /\ WaitBegin(Keys(grouped), backoff, timeout)
    /\ op' = "collect"
    /\ dirIdx' = 0
    /\ records' = << >>
    /\ buffer' = << >>
    /\ written' = << >>
    /\ appended' = << >>
    /\ capacity' = 0
    /\ cargs' = None
    /\ rerunOf' = "none"
    /\ treeBefore' = None
    /\ UNCHANGED << fsVars, arrays, periodicVars >>

\* cleanup, up to the wait
CleanupBegin ==
    /\ pc = "idle"
    /\ \E keep_meta \in BOOLEAN, wait_for_done \in BOOLEAN,
          backoff \in Backoffs, timeout \in Timeouts :
          \* the arguments, with backoff and timeout as _wait_for_done reads them
          LET a == [keep_meta |-> keep_meta, wait_for_done |-> wait_for_done,
                    backoff |-> Max0(backoff),
                    timeout |-> IF timeout = None THEN None
                                ELSE Some(Max0(Get(timeout)))]
          IN  /\ cargs' = Some(a)
              /\ rerunOf' = IF op = "cleanup" /\ cargs = Some(a) THEN result ELSE "none"
              /\ treeBefore' = Some([segs |-> segs, streamsDir |-> streamsDir])
              /\ IF wait_for_done
                 THEN /\ pc' = "poll"
                      /\ WaitBegin(PathSet, backoff, timeout)
                 ELSE /\ pc' = "remove"
                      /\ pending' = {}
                      /\ UNCHANGED << deadline, sleep_s, elapsed >>
    /\ op' = "cleanup"
    /\ result' = "none"
    /\ rule' = None
    /\ streams_by_path' = << >>
    /\ selected_by_path' = << >>
    /\ dirIdx' = 0
    /\ records' = << >>
    /\ buffer' = << >>
    /\ written' = << >>
    /\ appended' = << >>
    /\ capacity' = 0
    /\ UNCHANGED << fsVars, arrays, periodicVars >>

DeadlineFirst(rest, timed_out) == rest = {} /\ ~timed_out

\* what _wait_for_done returns when its loop ends: True when no path is
\* pending after the poll, False when the deadline has passed
WaitResult(rest, timed_out) == rest = {}

AllReady(paths) == paths

\* ready = {path for path in pending if (path / DONE_MARKER).exists()}
Ready(paths) == {path \in paths : done[path]}

NeverTimedOut(dl, now) == FALSE

\* deadline is not None and time.monotonic() >= deadline
TimedOut(dl, now) == dl # None /\ now >= Get(dl)

\* one iteration of the loop of _wait_for_done, up to the return or the
\* sleep, and what the caller does with a returned value
WaitPoll ==
    /\ pc = "poll"
    /\ LET ready == Ready(pending)
           rest == pending \ ready
           timed_out == TimedOut(deadline, elapsed)
       IN  /\ IF rest # {} /\ ~timed_out
              THEN /\ pc' = "sleep"
                   /\ pending' = rest
                   /\ UNCHANGED << result, dirIdx, deadline, sleep_s, elapsed,
                                   capacity >>
              ELSE \* _wait_for_done returns, and its locals are gone
                   /\ deadline' = None
                   /\ sleep_s' = 0
                   /\ elapsed' = 0
                   /\ pending' = IF op = "collect" THEN rest ELSE {}
                   /\ IF op = "wait"
                      THEN \* the value _wait_for_done returns
                           /\ pc' = "idle"
                           /\ result' = IF WaitResult(rest, timed_out)
                                        THEN "true" ELSE "false"
                           /\ UNCHANGED << dirIdx, capacity >>
                      ELSE IF AbortOnTimeout(WaitResult(rest, timed_out))
                      THEN /\ pc' = "idle"
                           /\ result' = "false"
                           /\ UNCHANGED << dirIdx, capacity >>
                      ELSE IF op = "collect"
                      THEN \* buffer = _BatchBuffer(columns, self._batch_size)
                           /\ pc' = "decode_dir"
                           /\ dirIdx' = 1
                           /\ capacity' \in 1 .. MaxBatchSize
                           /\ UNCHANGED result
                      ELSE /\ pc' = "remove"
                           /\ UNCHANGED << result, dirIdx, capacity >>
    /\ UNCHANGED << fsVars, op, rule, cargs, streams_by_path, selected_by_path,
                    records, buffer, written, arrays, appended, rerunOf, treeBefore,
                    periodicVars >>

\* every reading of the clock from here on is past every deadline of the
\* model, so later readings are not told apart
ClockCap == MaxTimeout + MaxBackoff + 1

\* the reading of time.monotonic() after a sleep that began at now
Clock(now, slept) == IF now + slept < ClockCap THEN now + slept ELSE ClockCap

\* time.sleep(sleep_s): the clock advances by sleep_s or more
WaitSleep ==
    /\ pc = "sleep"
    /\ pc' = "poll"
    /\ \E slack \in {0, 1} :
          elapsed' = IF deadline = None THEN elapsed
                     ELSE Clock(elapsed, sleep_s + slack)
    /\ UNCHANGED << fsVars, capacity, op, result, rule, cargs, streams_by_path,
                    selected_by_path, pending, deadline, sleep_s, decodeVars,
                    arrays, rerunOf, treeBefore, periodicVars >>

\* _decode_logger up to its loop over the records, for the next directory
DecodeLoggerBegin ==
    /\ pc = "decode_dir"
    /\ dirIdx <= Len(selected_by_path)
    /\ LET base == selected_by_path[dirIdx].path
           meta_map == MetaMap(streams_by_path, base)
       IN  IF SelectedIds(selected_by_path, dirIdx) = {}
           THEN /\ dirIdx' = dirIdx + 1
                /\ UNCHANGED << pc, result, records >>
           ELSE IF DOMAIN meta_map = {} \/ ScalesMissing(meta_map)
           THEN \* ValueError
                /\ pc' = "idle"
                /\ result' = "raised"
                /\ UNCHANGED << dirIdx, records >>
           ELSE /\ pc' = "decode_rec"
                /\ records' = DecodeAll(segs[base], SegmentFiles(segs[base]))
                /\ UNCHANGED << dirIdx, result >>
    /\ UNCHANGED << fsVars, capacity, op, rule, cargs, streams_by_path, selected_by_path,
                    waitVars, buffer, written, arrays, appended, rerunOf, treeBefore,
                    periodicVars >>

\* one iteration of the loop over the records
DecodeRecord ==
    /\ pc = "decode_rec"
    /\ records # << >>
    /\ LET rec == Head(records)
           base == selected_by_path[dirIdx].path
           meta_map == MetaMap(streams_by_path, base)
       IN  IF rec.sid \notin SelectedIds(selected_by_path, dirIdx)
              \/ rec.sid \notin DOMAIN meta_map
           THEN UNCHANGED << buffer, written, appended >>
           ELSE LET buf == buffer_append(buffer, rec.sid, rec.epoch,
                                         AsArray(OwnArr(rec.idx)),
                                         AsArray(OwnArr(rec.vals)),
                                         meta_map[rec.sid], base)
                    f == IF is_full(buf, capacity)
                         THEN flush_buffer(written, buf)
                         ELSE [written |-> written, buffer |-> buf]
                IN  /\ buffer' = f.buffer
                    /\ written' = f.written
                    /\ appended' = Append(appended, RowAt(buf[Len(buf)]))
    /\ records' = Tail(records)
    /\ UNCHANGED << fsVars, capacity, op, pc, result, rule, cargs, streams_by_path,
                    selected_by_path, waitVars, dirIdx, arrays, rerunOf, treeBefore,
                    periodicVars >>

\* the records of the directory are exhausted: _decode_logger returns
DecodeLoggerEnd ==
    /\ pc = "decode_rec"
    /\ records = << >>
    /\ pc' = "decode_dir"
    /\ dirIdx' = dirIdx + 1
    /\ UNCHANGED << fsVars, capacity, op, result, rule, cargs, streams_by_path,
                    selected_by_path, waitVars, records, buffer, written,
                    arrays, appended, rerunOf, treeBefore, periodicVars >>

\* collect after the last directory: the final flush and "return True"
CollectFinish ==
    /\ pc = "decode_dir"
    /\ dirIdx > Len(selected_by_path)
    /\ LET f == flush_buffer(written, buffer)
       IN  /\ buffer' = f.buffer
           /\ written' = f.written
    /\ pc' = "idle"
    /\ result' = "true"
    /\ UNCHANGED << fsVars, capacity, op, rule, cargs, streams_by_path, selected_by_path,
                    waitVars, dirIdx, records, arrays, appended, rerunOf, treeBefore,
                    periodicVars >>

\* cleanup after the wait: the removals and "return True"
CleanupRemove ==
    /\ pc = "remove"
    /\ segs' = [base \in DOMAIN segs |-> remove_segments(segs[base])]
    /\ streamsDir' = IF Get(cargs).keep_meta THEN streamsDir
                     ELSE [base \in DOMAIN streamsDir |->
                              IF streamsDir[base] # None
                              THEN remove_metadata(streamsDir[base])
                              ELSE streamsDir[base]]
    /\ pc' = "idle"
    /\ result' = "true"
    /\ UNCHANGED << done, capacity, op, rule, cargs, streams_by_path,
                    selected_by_path, waitVars, decodeVars, arrays, rerunOf, treeBefore,
                    periodicVars >>

\* the producer of a directory finishes and writes its _DONE marker
TouchDone ==
    /\ \E path \in PathSet :
          /\ ~done[path]
          /\ done' = [done EXCEPT ![path] = TRUE]
    /\ UNCHANGED << streamsDir, segs, capacity, op, pc, result, rule, cargs,
                    streams_by_path, selected_by_path, waitVars, decodeVars,
                    arrays, rerunOf, treeBefore, periodicVars >>

\* no PeriodicStream is in use
PeriodicUnused ==
    /\ kind = "state" /\ periodicity = 1
    /\ next_state_period = 0 /\ state_vector = None
    /\ next_acc_period = 0 /\ acc_current_period = None
    /\ accumulator_vector = None /\ callerVec = << >>
    /\ emitted = << >> /\ lastAt = << >> /\ binSum = << >> /\ shadow = None
    /\ nCalls = 0 /\ nCloses = 0 /\ closedAt = None /\ recordedAt = None
    /\ lastPassed = None /\ mutated = FALSE

\* Collector.__init__ over directories the producers have written
CollectorInit ==
    /\ done \in [PathSet -> BOOLEAN]
    /\ streamsDir \in [PathSet -> StreamsDirs]
    /\ segs \in [PathSet -> SegmentLayouts]
    /\ capacity = 0
    /\ op = "none" /\ pc = "idle" /\ result = "none"
    /\ rule = None /\ cargs = None
    /\ streams_by_path = << >> /\ selected_by_path = << >>
    /\ pending = {} /\ deadline = None /\ sleep_s = 0 /\ elapsed = 0
    /\ dirIdx = 0 /\ records = << >> /\ buffer = << >> /\ written = << >>
    /\ arrays = << >> /\ appended = << >> /\ rerunOf = "none" /\ treeBefore = None
    /\ PeriodicUnused

CollectorNext ==
    \/ CollectBegin
    \/ CleanupBegin
    \/ WaitPoll
    \/ WaitSleep
    \/ DecodeLoggerBegin
    \/ DecodeRecord
    \/ DecodeLoggerEnd
    \/ CollectFinish
    \/ CleanupRemove
    \/ TouchDone

SpecCollector == CollectorInit /\ [][CollectorNext]_vars

\* ------------------------------------------------------------------------
\* _BatchBuffer on its own, with a caller that keeps the arrays it appends
\* ------------------------------------------------------------------------

\* number of rows a caller appends
MaxAppends == 3

ArrayIds == {1, 2}
ArrayContents == {<<0>>, <<7>>}

\* buffer.append(stream_id, epoch, indices, values, meta) on the caller's arrays
BufAppend ==
    /\ Len(appended) < MaxAppends
    /\ \E ci \in ArrayIds, cv \in ArrayIds :
          LET buf == buffer_append(buffer, 1, Len(appended) + 1,
                                   CallerArr(ci), CallerArr(cv), dA, 0)
          IN  /\ buffer' = buf
              /\ appended' = Append(appended, RowAt(buf[Len(buf)]))
    /\ UNCHANGED << fsVars, capacity, op, pc, result, rule, cargs,
                    streams_by_path, selected_by_path, waitVars, dirIdx,
                    records, written, arrays, rerunOf, treeBefore, periodicVars >>

\* the caller overwrites one of its arrays in place
BufMutate ==
    /\ \E c \in ArrayIds, a \in ArrayContents :
          /\ a # arrays[c]
          /\ arrays' = [arrays EXCEPT ![c] = a]
    /\ UNCHANGED << fsVars, capacity, op, pc, result, rule, cargs,
                    streams_by_path, selected_by_path, waitVars, decodeVars,
                    rerunOf, treeBefore, periodicVars >>

\* the buffer is drained to a batch: to_arrow_arrays, write_batch, clear
BufDrain ==
    /\ LET f == flush_buffer(written, buffer)
       IN  /\ buffer' = f.buffer
           /\ written' = f.written
    /\ UNCHANGED << fsVars, capacity, op, pc, result, rule, cargs,
                    streams_by_path, selected_by_path, waitVars, dirIdx,
                    records, arrays, appended, rerunOf, treeBefore, periodicVars >>

\* _BatchBuffer(columns, capacity)
BufferInit ==
    /\ done = << >> /\ streamsDir = << >> /\ segs = << >>
    /\ capacity \in 0 .. MaxBatchSize
    /\ op = "none" /\ pc = "idle" /\ result = "none"
    /\ rule = None /\ cargs = None
    /\ streams_by_path = << >> /\ selected_by_path = << >>
    /\ pending = {} /\ deadline = None /\ sleep_s = 0 /\ elapsed = 0
    /\ dirIdx = 0 /\ records = << >> /\ buffer = << >> /\ written = << >>
    /\ arrays \in [ArrayIds -> ArrayContents]
    /\ appended = << >> /\ rerunOf = "none" /\ treeBefore = None
    /\ PeriodicUnused

BufferNext ==
    \/ BufAppend
    \/ BufMutate
    \/ BufDrain

SpecBuffer == BufferInit /\ [][BufferNext]_vars

\* ------------------------------------------------------------------------
\* _wait_for_done on its own, for any set of paths
\* ------------------------------------------------------------------------

\* self._wait_for_done(paths, backoff, timeout)
WaiterCall ==
    /\ pc = "idle"
    /\ \E paths \in SUBSET PathSet, backoff \in Backoffs \cup {-1},
          timeout \in Timeouts :
          /\ cargs' = Some([paths |-> paths, backoff |-> backoff,
                            timeout |-> timeout])
          /\ IF paths = {}
             THEN \* if not pending: return True
                  /\ pc' = "idle"
                  /\ result' = "true"
                  /\ pending' = {}
                  /\ UNCHANGED << deadline, sleep_s, elapsed >>
             ELSE /\ pc' = "poll"
                  /\ result' = "none"
                  /\ WaitBegin(paths, backoff, timeout)
    /\ op' = "wait"
    /\ UNCHANGED << fsVars, capacity, rule, streams_by_path, selected_by_path,
                    decodeVars, arrays, rerunOf, treeBefore, periodicVars >>

\* directories whose producers may still be running
WaiterInit ==
    /\ done \in [PathSet -> BOOLEAN]
    /\ streamsDir = [path \in PathSet |-> None]
    /\ segs = [path \in PathSet |-> << >>]
    /\ capacity = 0
    /\ op = "none" /\ pc = "idle" /\ result = "none"
    /\ rule = None /\ cargs = None
    /\ streams_by_path = << >> /\ selected_by_path = << >>
    /\ pending = {} /\ deadline = None /\ sleep_s = 0 /\ elapsed = 0
    /\ dirIdx = 0 /\ records = << >> /\ buffer = << >> /\ written = << >>
    /\ arrays = << >> /\ appended = << >> /\ rerunOf = "none" /\ treeBefore = None
    /\ PeriodicUnused

WaiterNext ==
    \/ WaiterCall
    \/ WaitPoll
    \/ WaitSleep
    \/ TouchDone

SpecWaiter == WaiterInit /\ [][WaiterNext]_vars

\* the monotonic clock has advanced when the sleep returns
ClockAdvances == WaitSleep /\ elapsed' > elapsed

\* the thread that waits keeps running and its clock keeps advancing;
\* nothing forces a producer to write its marker or a caller to call
SpecWaiterFair ==
    /\ SpecWaiter
    /\ WF_vars(WaitPoll)
    /\ WF_vars(WaitSleep)
    /\ SF_vars(ClockAdvances)

\* ------------------------------------------------------------------------
\* Properties of _BatchBuffer and Collector
\* ------------------------------------------------------------------------

RECURSIVE Flat(_)
\* the rows of the written batches, in write order
Flat(batches) ==
    IF batches = << >> THEN << >> ELSE Head(batches) \o Flat(Tail(batches))

\* C5: a row drained to a batch is the row as it was when it was appended,
\* whatever the caller did to the arrays it passed to append.
C5_AppendCopies ==
    \A k \in DOMAIN Flat(written) : Flat(written)[k] = appended[k]

\* C6: within one collect call the written batches, in write order, followed
\* by the rows still buffered are exactly the appended rows in append order,
\* and the buffer is empty when collect has returned true.
C6_BufferFidelity ==
    op = "collect" =>
        /\ Flat(written) \o to_arrow_arrays(buffer) = appended
        /\ (pc = "idle" /\ result = "true" => buffer = << >>)

\* a collect that returned true after writing full batches and a last,
\* smaller one
C6_Witness ==
    /\ op = "collect" /\ pc = "idle" /\ result = "true"
    /\ Len(written) >= 2
    /\ Len(written[Len(written)]) < capacity
    /\ Flat(written) = appended

\* collect has returned true or false
Returned == op = "collect" /\ pc = "idle" /\ result \in {"true", "false"}

\* the streams collect discovered: (path, stream id)
Streams ==
    {ps \in PathSet \X {1, 2} :
        ps[1] \in DOMAIN streams_by_path /\ ps[2] \in DOMAIN streams_by_path[ps[1]]}

\* the stream's labels satisfy the rule of the call
SatisfiesRule(ps) ==
    rule = None \/ streams_by_path[ps[1]][ps[2]].entity = Get(rule)

\* the segments of the stream's directory hold a measurement of the stream
HasMeasurement(ps) ==
    \E n \in DOMAIN segs[ps[1]] :
        \E i \in DOMAIN segs[ps[1]][n] : segs[ps[1]][n][i].sid = ps[2]

\* a written row belongs to the stream
Represented(ps) ==
    \E k \in DOMAIN Flat(written) :
        Flat(written)[k].dir = ps[1] /\ Flat(written)[k].stream_id = ps[2]

\* C7, as stated: when collect has returned, a stream (with a measurement
\* in its directory) is represented in the output iff its labels satisfy
\* the rule and its own directory produced _DONE before the timeout.
C7_FilterCompletenessOwnDirectory ==
    Returned =>
        \A ps \in Streams :
            HasMeasurement(ps) =>
                (Represented(ps) <=> (SatisfiesRule(ps) /\ ps[1] \notin pending))

\* C7, amended: when collect has returned, a stream with a measurement in
\* its directory is represented in the output iff its labels satisfy the
\* rule and every directory that holds a selected stream produced _DONE
\* before the timeout.
C7_FilterCompleteness ==
    Returned =>
        \A ps \in Streams :
            HasMeasurement(ps) =>
                (Represented(ps) <=> (SatisfiesRule(ps) /\ pending = {}))

\* a collect over two directories with selected streams that returned true:
\* a stream that satisfies the rule is represented, one that does not is not
C7_Witness ==
    /\ Returned /\ result = "true"
    /\ Len(selected_by_path) = 2
    /\ \E ps \in Streams : Represented(ps)
    /\ \E ps \in Streams : HasMeasurement(ps) /\ ~Represented(ps)

\* C8: every row written (or buffered) by collect has a stream id that is
\* selected in the directory it was decoded from and has a descriptor there,
\* and its label cell is the one of that directory's descriptor.
C8_RowsFromSelectedStreams ==
    op = "collect" =>
        \A k \in DOMAIN appended :
            LET row == appended[k]
                ps == << row.dir, row.stream_id >>
            IN  /\ ps \in Streams
                /\ SatisfiesRule(ps)
                /\ row.entity = streams_by_path[ps[1]][ps[2]].entity
                /\ \/ \E j \in DOMAIN Flat(written) : Flat(written)[j] = row
                   \/ \E j \in DOMAIN buffer : RowAt(buffer[j]) = row

\* rows written from two directories that use the same stream id with
\* different labels, one of them not selected
C8_Witness ==
    /\ Returned /\ result = "true"
    /\ \E k \in DOMAIN Flat(written) :
          LET row == Flat(written)[k]
          IN  \E other \in PathSet \ {row.dir} :
                 /\ << other, row.stream_id >> \in Streams
                 /\ HasMeasurement(<< other, row.stream_id >>)
                 /\ ~SatisfiesRule(<< other, row.stream_id >>)

\* C9: while a directory that holds a selected stream has no _DONE, no batch
\* is written, and a collect that returns then returns false.
C9_TimeoutContract ==
    (op = "collect" /\ \E path \in Keys(selected_by_path) : ~done[path]) =>
        /\ written = << >>
        /\ (pc = "idle" => result = "false")

\* collect has timed out on one directory while another selected directory
\* had _DONE and segments to decode
C9_Witness ==
    /\ op = "collect" /\ pc = "idle" /\ result = "false"
    /\ \E path \in Keys(selected_by_path) : ~done[path]
    /\ \E path \in Keys(selected_by_path) : done[path] /\ DOMAIN segs[path] # {}
    /\ written = << >>

\* C10, as stated: a step of a cleanup that re-runs the previous cleanup
\* call, whatever that one returned, changes nothing in the tree, and the
\* re-run returns true.
C10_CleanupIdempotentAfterAnyCall ==
    [][ (op' = "cleanup" /\ rerunOf' \in {"true", "false"} /\ pc' # pc) =>
            /\ segs' = segs /\ streamsDir' = streamsDir /\ done' = done
            /\ (pc' = "idle" => result' = "true") ]_vars

\* C10, amended: a step of a cleanup that re-runs a cleanup call that
\* returned true changes nothing in the tree (segments, streams/, _DONE),
\* and the re-run returns true.
C10_CleanupIdempotent ==
    [][ (op' = "cleanup" /\ rerunOf' = "true" /\ pc' # pc) =>
            /\ segs' = segs /\ streamsDir' = streamsDir /\ done' = done
            /\ (pc' = "idle" => result' = "true") ]_vars

\* a cleanup that returned true has been re-run with the same arguments
C10_Witness ==
    op = "cleanup" /\ rerunOf = "true" /\ pc = "idle" /\ result = "true"

\* the running cleanup is about to see its deadline passed with a marker missing
WaitTimesOut ==
    /\ op = "cleanup" /\ pc = "poll"
    /\ deadline # None /\ elapsed >= Get(deadline)
    /\ \E path \in pending : ~done[path]

\* the segments and the streams/ directories are as they were when the
\* cleanup began
TreeUntouched == Get(treeBefore) = [segs |-> segs, streamsDir |-> streamsDir]

\* C11: a cleanup with wait_for_done whose wait times out returns false at
\* that poll, and a cleanup that returned false has removed no segment file
\* and no streams/ directory under any path, also under paths with _DONE.
C11_CleanupTimeoutDeletesNothing ==
    /\ [][ (WaitTimesOut /\ pc' # pc) => (pc' = "idle" /\ result' = "false") ]_vars
    /\ []((op = "cleanup" /\ pc = "idle" /\ result = "false") =>
              (Get(cargs).wait_for_done /\ TreeUntouched))

\* a cleanup(keep_meta=False) has timed out while one path had _DONE,
\* segments and a streams/ directory
C11_Witness ==
    /\ op = "cleanup" /\ pc = "idle" /\ result = "false"
    /\ ~Get(cargs).keep_meta
    /\ \E path \in PathSet :
          done[path] /\ DOMAIN segs[path] # {} /\ streamsDir[path] # None

\* C12: after a cleanup that returned true no path has a segment file; with
\* keep_meta the streams/ directories are as they were when the call began,
\* and without it no path has a streams/ directory.
C12_CleanupRemoves ==
    (op = "cleanup" /\ pc = "idle" /\ result = "true") =>
        /\ \A path \in PathSet : DOMAIN segs[path] = {}
        /\ IF Get(cargs).keep_meta
           THEN streamsDir = Get(treeBefore).streamsDir
           ELSE \A path \in PathSet : streamsDir[path] = None

\* a cleanup(keep_meta=False) returned true on a path that had segments and
\* a streams/ directory, and one with keep_meta=True would have kept them
C12_Witness ==
    /\ op = "cleanup" /\ pc = "idle" /\ result = "true"
    /\ ~Get(cargs).keep_meta
    /\ \E path \in PathSet :
          /\ DOMAIN Get(treeBefore).segs[path] # {}
          /\ Get(treeBefore).streamsDir[path] # None

\* where a written row comes from: the position of its directory among the
\* paths given to the Collector, the name of its segment file, and its
\* position in the decoder's output for that file
Origins(row) ==
    UNION { { << CHOOSE d \in DOMAIN PathSeq : PathSeq[d] = row.dir, name, i >> :
                i \in {j \in DOMAIN segs[row.dir][name] :
                          /\ segs[row.dir][name][j].sid = row.stream_id
                          /\ segs[row.dir][name][j].epoch = row.epoch} } :
            name \in DOMAIN segs[row.dir] }

\* a comes before b: directory first, then file name, then position
Before(a, b) ==
    \/ a[1] < b[1]
    \/ a[1] = b[1] /\ a[2] < b[2]
    \/ a[1] = b[1] /\ a[2] = b[2] /\ a[3] < b[3]

\* C15: the rows collect writes are ordered by the position of their
\* directory among the paths given to the Collector, then by the name of the
\* segment file, then by the decoder's order within the file.
C15_RowOrder ==
    op = "collect" =>
        \A i, j \in DOMAIN Flat(written) :
            i < j =>
                /\ Origins(Flat(written)[i]) # {}
                /\ \A a \in Origins(Flat(written)[i]), b \in Origins(Flat(written)[j]) :
                      Before(a, b)

\* rows of two directories, of two files of a directory and of one file are
\* all in the output
C15_Witness ==
    /\ Returned /\ result = "true"
    /\ \E i, j, k, l \in DOMAIN Flat(written) :
          /\ i < j /\ j < k /\ k < l
          /\ Flat(written)[i].dir # Flat(written)[l].dir
          /\ Flat(written)[j].dir = Flat(written)[k].dir
          /\ \E a \in Origins(Flat(written)[i]), b \in Origins(Flat(written)[j]) :
                a[1] = b[1] /\ a[2] # b[2]
          /\ \E a \in Origins(Flat(written)[j]), b \in Origins(Flat(written)[k]) :
                a[2] = b[2]

\* the descriptor of a stream that satisfies the rule lacks a scale
SelectedLacksScales ==
    \E ps \in Streams : SatisfiesRule(ps) /\ ~streams_by_path[ps[1]][ps[2]].scales

\* C16, as stated: a collect that has ended while the descriptor of a
\* selected stream lacks epoch_scale or value_scale has raised.
C16_MissingScalesAlwaysRaise ==
    (op = "collect" /\ pc = "idle" /\ SelectedLacksScales) => result = "raised"

\* C16, amended: a collect that has ended while the descriptor of a selected
\* stream lacks a scale has not returned true: it has raised when every
\* directory with a selected stream produced _DONE before the timeout, and
\* has returned false when the wait timed out.
C16_MissingScalesRaise ==
    (op = "collect" /\ pc = "idle" /\ SelectedLacksScales) =>
        result = IF pending = {} THEN "raised" ELSE "false"

\* collect has raised on a selected stream without scales, after rows of an
\* earlier directory were appended
C16_Witness ==
    /\ op = "collect" /\ pc = "idle" /\ result = "raised"
    /\ SelectedLacksScales
    /\ appended # << >>

\* the path holds a stream that satisfies the rule of the call
OwnsSelected(path) == \E ps \in Streams : ps[1] = path /\ SatisfiesRule(ps)

\* C18: collect waits only for directories that own a selected stream; it
\* returns false only on such a directory; and with an empty selection it
\* is never waiting: it has returned true and has written nothing.
C18_WaitsOnlyOnSelected ==
    op = "collect" =>
        /\ \A path \in pending : OwnsSelected(path)
        /\ (pc = "idle" /\ result = "false") =>
               \E path \in pending : OwnsSelected(path)
        /\ (\A path \in PathSet : ~OwnsSelected(path)) =>
               (pc = "idle" /\ result = "true" /\ written = << >> /\ pending = {})

\* collect returned true and wrote rows although a directory with streams,
\* none of them selected, has no _DONE
C18_Witness ==
    /\ Returned /\ result = "true" /\ written # << >>
    /\ \E path \in PathSet :
          /\ ~done[path]
          /\ path \in DOMAIN streams_by_path
          /\ ~OwnsSelected(path)

\* the paths the running or last wait was called on
Awaited == Get(cargs).paths

\* C19: the waiter starts with every awaited path pending, a path leaves the
\* pending set only at a poll that sees its _DONE, and success is returned
\* only at a poll that sees _DONE on every path still pending (at once when
\* no path is awaited); without a timeout failure is never returned,
\* whatever the backoff.
C19_WaiterSafety ==
    /\ [][ (op' = "wait" /\ pc' # pc) =>
              /\ (pc = "idle" /\ pc' = "poll") => pending' = Get(cargs').paths
              /\ (pc = "poll" /\ pc' = "sleep") =>
                     /\ pending' \subseteq pending
                     /\ \A path \in pending \ pending' : done[path]
              /\ (pc = "poll" /\ pc' = "idle" /\ result' = "true") =>
                     \A path \in pending : done[path]
              /\ (pc = "poll" /\ pc' = "idle" /\ result' = "false") =>
                     deadline # None ]_vars
    /\ []((op = "wait" /\ pc # "idle") => pending \subseteq Awaited)
    /\ []((op = "wait" /\ Awaited = {}) => (pc = "idle" /\ result = "true"))
    /\ []((op = "wait" /\ pc = "idle" /\ result = "false") =>
              Get(cargs).timeout # None)

\* a wait without a timeout and with a negative backoff on both paths has
\* returned success
C19_Witness ==
    /\ op = "wait" /\ pc = "idle" /\ result = "true"
    /\ Awaited = PathSet
    /\ Get(cargs).timeout = None
    /\ Get(cargs).backoff = -1

\* a wait is in progress
Waiting == op = "wait" /\ pc # "idle"

\* a marker of an awaited path is missing
MarkerMissing == cargs # None /\ \E path \in Awaited : ~done[path]

\* C20: a wait with a finite timeout eventually returns, and returns false
\* when a marker never appears; a wait, with or without a timeout, during
\* which every awaited path has its _DONE eventually returns true.
C20_WaiterLiveness ==
    /\ (Waiting /\ deadline # None) ~> (pc = "idle")
    /\ []((Waiting /\ deadline # None /\ []MarkerMissing) =>
              <>(pc = "idle" /\ result = "false"))
    /\ (Waiting /\ ~MarkerMissing) ~> (pc = "idle" /\ result = "true")

\* a wait with a positive timeout, which had to sleep, has returned false
C20_Witness ==
    /\ op = "wait" /\ pc = "idle" /\ result = "false"
    /\ Get(cargs).timeout # None
    /\ Get(Get(cargs).timeout) > 0
    /\ MarkerMissing

\* C21: a poll of the waiter that finds _DONE on every pending path returns
\* true whatever the deadline and the clock, so a wait that starts with
\* every marker present returns true also for a zero or negative timeout;
\* false is returned only at a poll that found a pending path without its
\* marker.
C21_PollBeforeDeadline ==
    [][ (op = "wait" /\ pc = "poll" /\ pc' # pc) =>
            /\ (\A path \in pending : done[path]) =>
                   (pc' = "idle" /\ result' = "true")
            /\ (pc' = "idle" /\ result' = "false") =>
                   \E path \in pending : ~done[path] ]_vars

\* a wait on both paths with a negative timeout has returned true
C21_Witness ==
    /\ op = "wait" /\ pc = "idle" /\ result = "true"
    /\ Awaited = PathSet
    /\ Get(cargs).timeout = Some(-1)

\* C23: in a collect with capacity C > 0 every written batch has between 1
\* and C rows, every batch but the last has exactly C rows, and between the
\* processing of two measurements the buffer holds fewer than C rows.
C23_BatchSizeBound ==
    (op = "collect" /\ capacity > 0) =>
        /\ \A b \in DOMAIN written :
              /\ Len(written[b]) >= 1
              /\ Len(written[b]) <= capacity
              /\ b < Len(written) => Len(written[b]) = capacity
        /\ Len(buffer) < capacity

\* a collect with the largest capacity wrote full batches and then a
\* smaller last one
C23_Witness ==
    /\ Returned /\ result = "true"
    /\ capacity = MaxBatchSize
    /\ Len(written) >= 2
    /\ Len(written[1]) = capacity
    /\ Len(written[Len(written)]) >= 1
    /\ Len(written[Len(written)]) < capacity

====
